---- MODULE Spec2Model ----
(***************************************************************************)
(* A model of pybbdb: the in-memory BBDB/Record/Address model of bbdb.py,  *)
(* its serializer (BBDB.write, Record.outputs, Address.outputs, quote),    *)
(* its reader (BBDB.read with the grammar of make_grammar) and the         *)
(* versioned parser of bbdb/parser.py (parse, make_grammar_2,              *)
(* make_grammar_9).                                                        *)
(*                                                                         *)
(* Text is modelled character by character: a Python str is a sequence of  *)
(* one-character strings, so that quoting, tokenizing and the property     *)
(* regexps are computed, not assumed.  A Python list of str is a sequence  *)
(* of such sequences; an (ordered) dict is a sequence of [k, v] items.     *)
(***************************************************************************)
EXTENDS Integers, Sequences, FiniteSets, TLC

VARIABLES
    db,        \* the BBDB object: coding, fileversion, userfields, records
    lists,     \* the heap of Python list objects that aka and net refer to
    fp,        \* what the last BBDB.write wrote to its file object
    raised,    \* the exception the last operation raised, or "none"
    text,      \* the text given to parse / BBDB.read
    version,   \* the version hint given to parser.parse (0: None)
    data,      \* what parser.parse returned
    gram,      \* the grammar parser.parse / BBDB.read parsed the text with
    string,    \* the argument of quote
    token,     \* quote's result, the token handed to the string action
    unquoted,  \* the string action's result
    last       \* the operation performed last

vars == <<db, lists, fp, raised, text, version, data, gram, string, token, unquoted, last>>

dbVars == <<db, lists, fp>>
parseVars == <<text, version, data, gram>>
quoteVars == <<string, token, unquoted>>

----------------------------------------------------------------------------
(* Bounds of the model.                                                    *)

MaxStrLen == 3

----------------------------------------------------------------------------
(* Characters and Python str helpers.                                      *)

DQ == "\""
BS == "\\"
NL == "\n"
SP == " "

\* The characters string values are built from: a letter, the quote
\* character and the escape character.
Alphabet == {"a", DQ, BS}

RECURSIVE SeqsUpTo(_, _)
SeqsUpTo(S, n) ==
    IF n = 0 THEN {<<>>}
    ELSE LET shorter == SeqsUpTo(S, n - 1)
         IN  shorter \cup {Append(x, c) : x \in {y \in shorter : Len(y) = n - 1}, c \in S}

Strings == SeqsUpTo(Alphabet, MaxStrLen)

\* s[i:] (0-based slicing as in Python, as a sequence)
Drop(s, n) == IF n >= Len(s) THEN <<>> ELSE SubSeq(s, n + 1, Len(s))

\* s.startswith(p) at 1-based position i
StartsWithAt(s, i, p) ==
    /\ i + Len(p) - 1 <= Len(s)
    /\ \A j \in 1..Len(p) : s[i + j - 1] = p[j]

\* str.replace(old, new): every non-overlapping occurrence, leftmost first.
RECURSIVE ReplaceFrom(_, _, _, _)
ReplaceFrom(s, i, old, new) ==
    IF i > Len(s) THEN <<>>
    ELSE IF StartsWithAt(s, i, old)
         THEN new \o ReplaceFrom(s, i + Len(old), old, new)
         ELSE <<s[i]>> \o ReplaceFrom(s, i + 1, old, new)

Replace(s, old, new) == ReplaceFrom(s, 1, old, new)

\* sep.join(parts)
RECURSIVE Join(_, _)
Join(sep, parts) ==
    IF parts = <<>> THEN <<>>
    ELSE IF Len(parts) = 1 THEN parts[1]
    ELSE parts[1] \o sep \o Join(sep, Tail(parts))

----------------------------------------------------------------------------
(* quote and the grammar's string action.                                  *)

quote_NoEscape(s) == <<DQ>> \o s \o <<DQ>>

\* bbdb.py quote: '"' + string.replace('"', r'\"') + '"'
quote(s) == <<DQ>> \o Replace(s, <<DQ>>, <<BS, DQ>>) \o <<DQ>>

\* parser.py make_string: t[0][1:-1].replace(r'\"', '"')
make_string(t) == Replace(SubSeq(t, 2, Len(t) - 1), <<BS, DQ>>, <<DQ>>)

----------------------------------------------------------------------------
(* Python values.                                                          *)

\* None where a str is expected (no str holds a four-character element).
NoneStr == <<"None">>

\* Truth value of a str or None.
Truthy(s) == s # <<>> /\ s # NoneStr

\* A phone number: a str, or a list of integers ("kind" tells which).
PhoneStr(s) == [kind |-> "str", str |-> s, ints |-> <<>>]
PhoneInts(n) == [kind |-> "ints", str |-> <<>>, ints |-> n]

\* OrderedDict / dict (insertion ordered): a sequence of items [k, v].
Keys(d) == [i \in 1..Len(d) |-> d[i].k]
HasKey(d, key) == \E i \in 1..Len(d) : d[i].k = key

\* d[key] = val: a new key goes last, an old key keeps its place.
DictSet(d, key, val) ==
    IF HasKey(d, key)
    THEN [i \in 1..Len(d) |-> IF d[i].k = key THEN [k |-> key, v |-> val] ELSE d[i]]
    ELSE Append(d, [k |-> key, v |-> val])

\* No BBDB object (a specification that uses none).
Idle == [coding |-> <<>>, fileversion |-> 0, userfields |-> <<>>, records |-> <<>>]

\* data = {}: parser.parse's dict, "keys" the keys set so far.
NoData == [keys |-> {}, coding |-> <<>>, fileversion |-> 0, records |-> <<>>]

\* The list object a reference names; reference 0 is None.
Deref(heap, ref) == IF ref = 0 THEN <<>> ELSE heap[ref]

DigitChars == <<"0", "1", "2", "3", "4", "5", "6", "7", "8", "9">>

\* "%d" % n for n >= 0
RECURSIVE IntToChars(_)
IntToChars(n) ==
    IF n < 10 THEN <<DigitChars[n + 1]>>
    ELSE IntToChars(n \div 10) \o <<DigitChars[(n % 10) + 1]>>

----------------------------------------------------------------------------
(* The serializer: Address.outputs, Record.outputs, BBDB.write.            *)

NIL == <<"n", "i", "l">>

Parens(items) == <<"(">> \o Join(<<SP>>, items) \o <<")">>
Brackets(items) == <<"[">> \o Join(<<SP>>, items) \o <<"]">>

QuoteAll(strs) == [i \in 1..Len(strs) |-> quote(strs[i])]

\* Address.outputs
AddressOutputs(address) ==
    << IF address.lines # <<>> THEN Parens(QuoteAll(address.lines)) ELSE NIL,
       quote(address.city), quote(address.state),
       quote(address.zipcode), quote(address.country) >>

\* Record.outputs, slot by slot.
AkaSlot_EmptyParens(heap, rec) == Parens(QuoteAll(Deref(heap, rec.aka)))

AkaSlot(heap, rec) ==
    IF Deref(heap, rec.aka) # <<>> THEN Parens(QuoteAll(Deref(heap, rec.aka))) ELSE NIL

CompanySlot(rec) == IF Truthy(rec.company) THEN quote(rec.company) ELSE NIL

\* map(quote, items) of a phone item (tag, number): quote is str-only, a
\* number that is a list has no replace method.
PhoneRaises(rec) == \E i \in 1..Len(rec.phone) : rec.phone[i].v.kind # "str"

PhoneSlot(rec) ==
    IF rec.phone # <<>>
    THEN Parens([i \in 1..Len(rec.phone) |->
                   Brackets(<<quote(rec.phone[i].k), quote(rec.phone[i].v.str)>>)])
    ELSE NIL

AddressSlot(rec) ==
    IF rec.address # <<>>
    THEN Parens([i \in 1..Len(rec.address) |->
                   <<"[">> \o quote(rec.address[i].k) \o <<SP>>
                      \o Join(<<SP>>, AddressOutputs(rec.address[i].v)) \o <<"]">>])
    ELSE NIL

NetSlot(heap, rec) ==
    IF Deref(heap, rec.net) # <<>> THEN Parens(QuoteAll(Deref(heap, rec.net))) ELSE NIL

FieldsSlot(rec) ==
    IF rec.fields # <<>>
    THEN Parens([i \in 1..Len(rec.fields) |->
                   <<"(">> \o rec.fields[i].k \o <<SP, ".", SP>>
                      \o quote(rec.fields[i].v) \o <<")">>])
    ELSE NIL

\* list(rec.outputs()): the nine slots (when the phone slot does not raise).
Outputs(heap, rec) ==
    << quote(rec.firstname), quote(rec.lastname), AkaSlot(heap, rec),
       CompanySlot(rec), PhoneSlot(rec), AddressSlot(rec), NetSlot(heap, rec),
       FieldsSlot(rec), NIL >>

\* BBDB.update_fields
RECURSIVE AppendNew(_, _)
AppendNew(userfields, tags) ==
    IF tags = <<>> THEN userfields
    ELSE AppendNew(IF \E i \in 1..Len(userfields) : userfields[i] = Head(tags)
                   THEN userfields ELSE Append(userfields, Head(tags)),
                   Tail(tags))

RECURSIVE FieldTags(_)
FieldTags(records) ==
    IF records = <<>> THEN <<>>
    ELSE Keys(Head(records).fields) \o FieldTags(Tail(records))

update_fields_Reset(userfields, records) == AppendNew(<<>>, FieldTags(records))

update_fields(userfields, records) == AppendNew(userfields, FieldTags(records))

CodingHeader(coding) ==
    <<";", ";", SP, "-", "*", "-", "c", "o", "d", "i", "n", "g", ":", SP>>
        \o coding \o <<";", "-", "*", "-", NL>>

VersionHeader(fileversion) ==
    <<";", ";", ";", SP, "f", "i", "l", "e", "-", "v", "e", "r", "s", "i", "o", "n", ":", SP>>
        \o IntToChars(fileversion) \o <<NL>>

FieldsHeader(userfields) ==
    <<";", ";", ";", SP, "u", "s", "e", "r", "-", "f", "i", "e", "l", "d", "s", ":", SP, "(">>
        \o Join(<<SP>>, userfields) \o <<")", NL>>

\* The loop over the records of BBDB.write: what reaches fp, and whether
\* an exception ended the loop (after the "[" of the record that raised).
RECURSIVE WriteRecords(_, _)
WriteRecords(heap, records) ==
    IF records = <<>> THEN [raised |-> "none", out |-> <<>>]
    ELSE IF PhoneRaises(Head(records))
    THEN [raised |-> "AttributeError", out |-> <<"[">>]
    ELSE LET rest == WriteRecords(heap, Tail(records))
         IN  [raised |-> rest.raised,
              out |-> <<"[">> \o Join(<<SP>>, Outputs(heap, Head(records)))
                        \o <<"]", NL>> \o rest.out]

\* BBDB.write as a function of the database: the new userfields, the text
\* written and the exception raised.
write(heap, d) ==
    LET uf == update_fields(d.userfields, d.records)
        recs == WriteRecords(heap, d.records)
    IN  [userfields |-> uf,
         raised |-> recs.raised,
         out |-> CodingHeader(d.coding) \o VersionHeader(d.fileversion)
                   \o FieldsHeader(uf) \o recs.out]

----------------------------------------------------------------------------
(* pyparsing's elements, as the grammars use them.  An element applied to  *)
(* text t at position p gives [ok, pos, val, isnil]: whether it matched,  *)
(* the position after the match, the tokens' value, and whether the match  *)
(* was that of nil.                                                        *)

nums == {DigitChars[i] : i \in 1..10}
alphanums ==
    {"a", "b", "c", "d", "e", "f", "g", "h", "i", "j", "k", "l", "m",
     "n", "o", "p", "q", "r", "s", "t", "u", "v", "w", "x", "y", "z",
     "A", "B", "C", "D", "E", "F", "G", "H", "I", "J", "K", "L", "M",
     "N", "O", "P", "Q", "R", "S", "T", "U", "V", "W", "X", "Y", "Z"} \cup nums
identChars == alphanums \cup {"_", "$"}
White == {SP, NL, "\t", "\r"}

Fail == [ok |-> FALSE, pos |-> 0, val |-> <<>>, isnil |-> FALSE]
Match(p, v) == [ok |-> TRUE, pos |-> p, val |-> v, isnil |-> FALSE]

\* The end of the line holding position p: the position of its "\n", or
\* Len(t) + 1.
RECURSIVE EndOfLine(_, _)
EndOfLine(t, p) ==
    IF p > Len(t) \/ t[p] = NL THEN p ELSE EndOfLine(t, p + 1)

\* preParse: skip whitespace and the ignored comments (Regex(r";.*")).
RECURSIVE Skip(_, _)
Skip(t, p) ==
    IF p > Len(t) THEN p
    ELSE IF t[p] \in White THEN Skip(t, p + 1)
    ELSE IF t[p] = ";" THEN Skip(t, EndOfLine(t, p))
    ELSE p

LitAt(t, q, c) == IF q <= Len(t) /\ t[q] = c THEN Match(q + 1, <<>>) ELSE Fail

\* Suppress(c) for a one-character literal c
Lit(t, p, c) == LitAt(t, Skip(t, p), c)

KeywordAt(t, q, k) ==
    IF /\ StartsWithAt(t, q, k)
       /\ (q + Len(k) > Len(t) \/ t[q + Len(k)] \notin identChars)
       /\ (q = 1 \/ t[q - 1] \notin identChars)
    THEN Match(q + Len(k), <<>>) ELSE Fail

\* Keyword(k): the literal, not preceded or followed by an identifier
\* character.
Keyword(t, p, k) == KeywordAt(t, Skip(t, p), k)

\* The end of the longest run of characters of cs starting at p.
RECURSIVE RunEnd(_, _, _)
RunEnd(t, p, cs) ==
    IF p <= Len(t) /\ t[p] \in cs THEN RunEnd(t, p + 1, cs) ELSE p

WordAt(t, q, cs) ==
    IF RunEnd(t, q, cs) > q
    THEN Match(RunEnd(t, q, cs), SubSeq(t, q, RunEnd(t, q, cs) - 1))
    ELSE Fail

\* Word(cs)
Word(t, p, cs) == WordAt(t, Skip(t, p), cs)

\* The closing quote of a QuotedString(quoteChar='"', escChar='\\') whose
\* body starts at i, or 0: the body is any run of characters other than the
\* quote, the escape and a line end, or the escape followed by a character.
RECURSIVE CloseQuote(_, _)
CloseQuote(t, i) ==
    IF i > Len(t) THEN 0
    ELSE IF t[i] = DQ THEN i
    ELSE IF t[i] = BS
         THEN IF i + 1 <= Len(t) /\ t[i + 1] # NL THEN CloseQuote(t, i + 2) ELSE 0
    ELSE IF t[i] \in {NL, "\r"} THEN 0
    ELSE CloseQuote(t, i + 1)

\* QuotedString's own unquoting (unquoteResults): strip the quotes and
\* drop each escape character, keeping the character it escapes.
RECURSIVE Unescape(_)
Unescape(s) ==
    IF s = <<>> THEN <<>>
    ELSE IF s[1] = BS /\ Len(s) >= 2 THEN <<s[2]>> \o Unescape(Drop(s, 2))
    ELSE <<s[1]>> \o Unescape(Tail(s))

Unquote(raw) == Unescape(SubSeq(raw, 2, Len(raw) - 1))

G0 == "make_grammar"
G2 == "make_grammar_2"
G9 == "make_grammar_9"

\* string: bbdb.py keeps QuotedString's unquoted result (lambda t: t[0]);
\* parser.py asks for the raw token and applies make_string.
StringValue(g, raw) == IF g = G0 THEN Unquote(raw) ELSE make_string(raw)

StringBetween(g, t, q, c) ==
    IF c # 0 THEN Match(c + 1, StringValue(g, SubSeq(t, q, c))) ELSE Fail

StringAt(g, t, q) ==
    IF q <= Len(t) /\ t[q] = DQ THEN StringBetween(g, t, q, CloseQuote(t, q + 1)) ELSE Fail

String(g, t, p) == StringAt(g, t, Skip(t, p))

RECURSIVE CharsToInt(_)
CharsToInt(ds) ==
    IF ds = <<>> THEN 0
    ELSE 10 * CharsToInt(SubSeq(ds, 1, Len(ds) - 1))
         + ((CHOOSE i \in 1..10 : DigitChars[i] = ds[Len(ds)]) - 1)

ToInteger(w) == IF w.ok THEN Match(w.pos, CharsToInt(w.val)) ELSE Fail

\* integer = Word(nums), int(t[0])
Integer(t, p) == ToInteger(Word(t, p, nums))

\* atom = Word(alphanums + '-')
Atom(t, p) == Word(t, p, alphanums \cup {"-"})

\* nil = Keyword("nil"); its value is None.
Nil(t, p) == Keyword(t, p, NIL)

\* The tokens of an And: a parse state [ok, pos, v] is threaded through its
\* elements; v holds the results named so far.
Start(p, names) == [ok |-> TRUE, pos |-> p, v |-> names]

\* The next element matched as r: its result is dropped (Suppress) ...
Then(st, r) ==
    IF ~st.ok THEN st
    ELSE IF r.ok THEN [st EXCEPT !.pos = r.pos]
    ELSE [st EXCEPT !.ok = FALSE]

\* ... or kept under a name.
Bind(st, key, r) ==
    IF ~st.ok THEN st
    ELSE IF r.ok THEN [st EXCEPT !.pos = r.pos, !.v[key] = r]
    ELSE [st EXCEPT !.ok = FALSE]

ThenLit(t, c, st) == Then(st, Lit(t, st.pos, c))

\* The element of the grammar that has the given name (defined below, once
\* the elements it names are).
RECURSIVE Element(_, _, _, _)

\* e(name): the element's result is kept under its name.
Named(name, g, t, st) == Bind(st, name, Element(name, g, t, st.pos))

\* An unnamed element of a sequence; its result is dropped.
Unnamed(name, g, t, st) == Then(st, Element(name, g, t, st.pos))

\* A repetition's tokens: the first match and those of the rest.
Cons(x, rest) == Match(rest.pos, <<x>> \o rest.val)

\* The matches of a repetition of element e from p: as many as match.
RECURSIVE Many(_, _, _, _)
More(e, g, t, p, r) ==
    IF ~r.ok THEN Match(p, <<>>) ELSE Cons(r.val, Many(e, g, t, r.pos))
Many(e, g, t, p) == More(e, g, t, p, Element(e, g, t, p))

\* A repetition that may match nothing
OneOrMore_AllowNone(xs) == xs

\* OneOrMore(e): no match is a failure
OneOrMore(xs) == IF xs.ok /\ xs.val # <<>> THEN xs ELSE Fail

\* Paren(OneOrMore(e)) = "(" + Group(OneOrMore(e)) + ")", after the "("
\* matched as lp
GroupEnd(st) == IF st.ok THEN Match(st.pos, st.v.group.val) ELSE Fail
Grouped(xs) == IF xs.ok THEN Bind(Start(xs.pos, [group |-> Fail]), "group", xs) ELSE xs
ParenFrom(e, g, t, lp) ==
    IF lp.ok
    THEN GroupEnd(ThenLit(t, ")", Grouped(OneOrMore(Many(e, g, t, lp.pos)))))
    ELSE Fail
Paren(e, g, t, p) == ParenFrom(e, g, t, Lit(t, p, "("))

\* Or([e, nil]) for an element e whose matches start with a parenthesis or
\* a quote, so that at most one alternative matches: e's result r, or nil's.
AsNil(n) == IF n.ok THEN [n EXCEPT !.isnil = TRUE] ELSE Fail
OrNil(r, t, p) == IF r.ok THEN r ELSE AsNil(Nil(t, p))

\* aka, net, affix = Or([Paren(OneOrMore(string)), nil])
StringList(g, t, p) == OrNil(Paren("string", g, t, p), t, p)

\* company = Or([string, nil])
Company(g, t, p) == OrNil(String(g, t, p), t, p)

----------------------------------------------------------------------------
(* The grammars: make_grammar (bbdb.py), make_grammar_2 and                *)
(* make_grammar_9 (parser.py).                                             *)

RECURSIVE FoldSet(_, _)
FoldSet(d, items) ==
    IF items = <<>> THEN d
    ELSE FoldSet(DictSet(d, Head(items).k, Head(items).v), Tail(items))

\* bbdb.py make_odict: d = odict(); for k, v in t[0]: d[k] = v
make_odict(items) == FoldSet(<<>>, items)

make_dict_KeepFirst(items) ==
    FoldSet(<<>>, [i \in 1..Len(items) |-> items[Len(items) + 1 - i]])

\* parser.py make_dict: {k: v for k, v in t[0] or []}
make_dict(items) == FoldSet(<<>>, items)

\* The parse action of a mapping group, applied to the group's entries.
Mapped(g, xs) ==
    IF ~xs.ok THEN Fail
    ELSE Match(xs.pos, IF g = G0 THEN make_odict(xs.val) ELSE make_dict(xs.val))

\* Or([phone_usa, phone_nonusa]): Group(OneOrMore(integer)) or string
AsInts(r) == IF r.ok THEN Match(r.pos, PhoneInts(r.val)) ELSE Fail
AsStr(r) == IF r.ok THEN Match(r.pos, PhoneStr(r.val)) ELSE Fail
OrElse(r1, r2) == IF r1.ok THEN r1 ELSE r2
PhoneNumber(g, t, p) ==
    OrElse(AsInts(OneOrMore(Many("integer", g, t, p))), AsStr(String(g, t, p)))

\* The (key, value) pair an entry's parse action makes.
Item(st, key, val) ==
    IF st.ok THEN Match(st.pos, [k |-> st.v[key].val, v |-> st.v[val].val]) ELSE Fail

\* phone_entry = Bracket(string("tag") + Or([phone_usa, phone_nonusa]))
phone_entry(g, t, p) ==
    Item(ThenLit(t, "]",
         Named("number", g, t,
         Named("tag", g, t,
         ThenLit(t, "[", Start(p, [tag |-> Fail, number |-> Fail]))))),
         "tag", "number")

\* phone = Or([Paren(OneOrMore(phone_entry)), nil]), then make_odict / make_dict
Phone(g, t, p) == OrNil(Mapped(g, Paren("phone_entry", g, t, p)), t, p)

\* make_address_entry: an Address (bbdb.py) or a dict (parser.py)
MakeAddress(g, a) ==
    IF g = G0
    THEN [lines |-> a.lines.val, city |-> a.city.val, state |-> a.state.val,
          zipcode |-> a.zipcode.val, country |-> a.country.val]
    ELSE [location |-> a.lines.val, city |-> a.city.val, state |-> a.state.val,
          zipcode |-> a.zipcode.val, country |-> a.country.val]

\* address_entry = Bracket(string("tag") + lines + string("city") +
\*                         string("state") + string("zipcode") + string("country"))
Addressed(g, st) ==
    IF st.ok THEN Bind(st, "address", Match(st.pos, MakeAddress(g, st.v))) ELSE st
address_entry(g, t, p) ==
    Item(Addressed(g,
         ThenLit(t, "]",
         Named("country", g, t,
         Named("zipcode", g, t,
         Named("state", g, t,
         Named("city", g, t,
         Named("lines", g, t,
         Named("tag", g, t,
         ThenLit(t, "[", Start(p, [tag |-> Fail, lines |-> Fail, city |-> Fail,
                                   state |-> Fail, zipcode |-> Fail,
                                   country |-> Fail, address |-> Fail])))))))))),
         "tag", "address")

\* address = Or([Paren(OneOrMore(address_entry)), nil])
Address(g, t, p) == OrNil(Mapped(g, Paren("address_entry", g, t, p)), t, p)

\* field = Paren(atom + dot + string)
field(g, t, p) ==
    Item(ThenLit(t, ")",
         Named("string", g, t,
         Unnamed("dot", g, t,
         Named("atom", g, t,
         ThenLit(t, "(", Start(p, [atom |-> Fail, string |-> Fail])))))),
         "atom", "string")

\* fields = Or([Paren(OneOrMore(field)), nil])
Fields(g, t, p) == OrNil(Mapped(g, Paren("field", g, t, p)), t, p)

\* lastname: a string in bbdb.py, Or([string("lastname"), nil]) in parser.py
\* (t[0].lastname of an unset name is '').
Lastname(g, t, p) ==
    IF g = G0 THEN String(g, t, p) ELSE OrNil(String(g, t, p), t, p)

\* An element only the version 9 record has.
Named9(name, g, t, st) == IF g = G9 THEN Named(name, g, t, st) ELSE st

NoTokens ==
    [firstname |-> Fail, lastname |-> Fail, affix |-> Fail, aka |-> Fail,
     company |-> Fail, phone |-> Fail, address |-> Fail, net |-> Fail,
     fields |-> Fail, uuid |-> Fail, creation |-> Fail, timestamp |-> Fail,
     cache |-> Fail]

\* The elements of a record, each applied where the one before it ended:
\* "[" name [affix] aka company phone address net fields
\*     [uuid creation timestamp] cache "]".  The state's pos is the end of
\* the last element that matched, its v the named results.
RecordSlots(g, t, p) ==
    ThenLit(t, "]",
    Named("cache", g, t,
    Named9("timestamp", g, t,
    Named9("creation", g, t,
    Named9("uuid", g, t,
    Named("fields", g, t,
    Named("net", g, t,
    Named("address", g, t,
    Named("phone", g, t,
    Named("company", g, t,
    Named("aka", g, t,
    Named9("affix", g, t,
    Named("lastname", g, t,
    Named("firstname", g, t,
    ThenLit(t, "[", Start(p, NoTokens))))))))))))))))

\* make_record: bbdb.py's Record(...) takes the named results as they are
\* (for nil: the empty results of aka and net, None for company);
\* parser.py's dicts take t[0].x or the empty value.
make_record(g, t0) ==
    IF g = G0
    THEN [firstname |-> t0.firstname.val, lastname |-> t0.lastname.val,
          aka |-> t0.aka.val,
          company |-> IF t0.company.isnil THEN NoneStr ELSE t0.company.val,
          phone |-> t0.phone.val, address |-> t0.address.val,
          net |-> t0.net.val,
          fields |-> t0.fields.val, cache |-> NoneStr]
    ELSE IF g = G2
    THEN [firstname |-> t0.firstname.val, lastname |-> t0.lastname.val,
          aka |-> t0.aka.val, company |-> t0.company.val,
          phone |-> t0.phone.val, address |-> t0.address.val,
          net |-> t0.net.val, fields |-> t0.fields.val]
    ELSE [firstname |-> t0.firstname.val, lastname |-> t0.lastname.val,
          affix |-> t0.affix.val,
          aka |-> t0.aka.val, company |-> t0.company.val,
          phone |-> t0.phone.val, address |-> t0.address.val,
          net |-> t0.net.val, fields |-> t0.fields.val,
          uuid |-> t0.uuid.val, creation |-> t0.creation.val,
          timestamp |-> t0.timestamp.val]

\* record = Bracket(...), then make_record
Made(g, st) == IF st.ok THEN Match(st.pos, make_record(g, st.v)) ELSE Fail
record(g, t, p) == Made(g, RecordSlots(g, t, p))

\* The elements by name.
Element(name, g, t, p) ==
    CASE name \in {"string", "firstname", "tag", "city", "state", "zipcode",
                   "country", "uuid", "creation", "timestamp"} -> String(g, t, p)
      [] name = "integer" -> Integer(t, p)
      [] name = "atom" -> Atom(t, p)
      [] name = "dot" -> Keyword(t, p, <<".">>)
      [] name = "cache" -> Nil(t, p)
      [] name = "lastname" -> Lastname(g, t, p)
      [] name \in {"affix", "aka", "net"} -> StringList(g, t, p)
      [] name = "lines" -> Paren("string", g, t, p)
      [] name = "company" -> Company(g, t, p)
      [] name = "number" -> PhoneNumber(g, t, p)
      [] name = "phone_entry" -> phone_entry(g, t, p)
      [] name = "phone" -> Phone(g, t, p)
      [] name = "address_entry" -> address_entry(g, t, p)
      [] name = "address" -> Address(g, t, p)
      [] name = "field" -> field(g, t, p)
      [] name = "fields" -> Fields(g, t, p)
      [] name = "record" -> record(g, t, p)

\* The records matched from the start, when the whole text matched.
parseAll_Off(t, r) == [raised |-> "none", records |-> r.val]

\* parseAll=True: a ParseException when anything but whitespace and
\* comments follows the last record that matched.
parseAll(t, r) ==
    IF Skip(t, r.pos) > Len(t) THEN [raised |-> "none", records |-> r.val]
    ELSE [raised |-> "ParseException", records |-> <<>>]

\* bbdb = ZeroOrMore(record); gram.parseString(text, parseAll=True)
parseString(g, t) == parseAll(t, Many("record", g, t, 1))

----------------------------------------------------------------------------
(* The header properties: the regexps of parser.properties and BBDB.props  *)
(* applied by re.search to a comment line.                                 *)

\* text.split("\n")
RECURSIVE SplitLines(_)
SplitLines(t) ==
    LET e == EndOfLine(t, 1)
    IN  IF e > Len(t) THEN <<t>> ELSE <<SubSeq(t, 1, e - 1)>> \o SplitLines(Drop(t, e))

\* The leftmost start >= i of pat in line, or 0.
RECURSIVE FindSub(_, _, _)
FindSub(line, pat, i) ==
    IF i + Len(pat) - 1 > Len(line) THEN 0
    ELSE IF StartsWithAt(line, i, pat) THEN i
    ELSE FindSub(line, pat, i + 1)

RECURSIVE LastIndexOf(_, _, _)
LastIndexOf(line, c, i) ==
    IF i = 0 THEN 0 ELSE IF line[i] = c THEN i ELSE LastIndexOf(line, c, i - 1)

NoMatch == [found |-> FALSE, group |-> <<>>]

\* re.search(pat + r"(\d+)", line): the leftmost pat that digits follow,
\* and the digits.
RECURSIVE SearchDigits(_, _, _)
SearchDigits(line, pat, i) ==
    LET j == FindSub(line, pat, i)
        d == j + Len(pat)
    IN  IF j = 0 THEN NoMatch
        ELSE IF d <= Len(line) /\ line[d] \in nums
             THEN [found |-> TRUE, group |-> SubSeq(line, d, RunEnd(line, d, nums) - 1)]
             ELSE SearchDigits(line, pat, j + 1)

\* re.search(pat + r"(.+)" + close, line): the leftmost pat, and all up to
\* the last close of the line (greedy), at least one character.
SearchUpTo(line, pat, close) ==
    LET j == FindSub(line, pat, 1)
        k == LastIndexOf(line, close, Len(line))
    IN  IF j # 0 /\ k >= j + Len(pat) + 1
        THEN [found |-> TRUE, group |-> SubSeq(line, j + Len(pat), k - 1)]
        ELSE NoMatch

\* s.split(): the runs of non-whitespace characters.
RECURSIVE SplitWords(_)
SplitWords(s) ==
    IF s = <<>> THEN <<>>
    ELSE IF s[1] \in White THEN SplitWords(Tail(s))
    ELSE LET e == CHOOSE n \in 1..(Len(s) + 1) :
                     /\ \A m \in 1..(n - 1) : s[m] \notin White
                     /\ (n = Len(s) + 1 \/ s[n] \in White)
         IN  <<SubSeq(s, 1, e - 1)>> \o SplitWords(Drop(s, e - 1))

PatCoding == <<"c", "o", "d", "i", "n", "g", ":", SP>>
PatFileFormat == <<"f", "i", "l", "e", "-", "f", "o", "r", "m", "a", "t", ":", SP>>
PatFileVersion == <<"f", "i", "l", "e", "-", "v", "e", "r", "s", "i", "o", "n", ":", SP>>
PatUserFields == <<"u", "s", "e", "r", "-", "f", "i", "e", "l", "d", "s", ":", SP, "(">>

IsComment(line) == line # <<>> /\ line[1] = ";"

\* One comment line applied to parser.parse's data: coding, file-format,
\* file-version, in the order of parser.properties.
properties_FormatLast(d, line) ==
    LET c == SearchUpTo(line, PatCoding, ";")
        v == SearchDigits(line, PatFileVersion, 1)
        f == SearchDigits(line, PatFileFormat, 1)
        d1 == IF c.found THEN [d EXCEPT !.keys = @ \cup {"coding"}, !.coding = c.group]
              ELSE d
        d2 == IF v.found
              THEN [d1 EXCEPT !.keys = @ \cup {"fileversion"},
                              !.fileversion = CharsToInt(v.group)]
              ELSE d1
    IN  IF f.found
        THEN [d2 EXCEPT !.keys = @ \cup {"fileversion"}, !.fileversion = CharsToInt(f.group)]
        ELSE d2

properties(d, line) ==
    LET c == SearchUpTo(line, PatCoding, ";")
        f == SearchDigits(line, PatFileFormat, 1)
        v == SearchDigits(line, PatFileVersion, 1)
        d1 == IF c.found THEN [d EXCEPT !.keys = @ \cup {"coding"}, !.coding = c.group]
              ELSE d
        d2 == IF f.found
              THEN [d1 EXCEPT !.keys = @ \cup {"fileversion"},
                              !.fileversion = CharsToInt(f.group)]
              ELSE d1
    IN  IF v.found
        THEN [d2 EXCEPT !.keys = @ \cup {"fileversion"}, !.fileversion = CharsToInt(v.group)]
        ELSE d2

\* for line in text.split("\n"): if line.startswith(";"): ...
RECURSIVE ExtractProperties(_, _)
ExtractProperties(d, lines) ==
    IF lines = <<>> THEN d
    ELSE ExtractProperties(IF IsComment(Head(lines)) THEN properties(d, Head(lines)) ELSE d,
                           Tail(lines))

\* One comment line applied to the BBDB object: BBDB.props.
props(d, line) ==
    LET c == SearchUpTo(line, PatCoding, ";")
        v == SearchDigits(line, PatFileVersion, 1)
        u == SearchUpTo(line, PatUserFields, ")")
        d1 == IF c.found THEN [d EXCEPT !.coding = c.group] ELSE d
        d2 == IF v.found THEN [d1 EXCEPT !.fileversion = CharsToInt(v.group)] ELSE d1
    IN  IF u.found THEN [d2 EXCEPT !.userfields = SplitWords(u.group)] ELSE d2

RECURSIVE ReadProps(_, _)
ReadProps(d, lines) ==
    IF lines = <<>> THEN d
    ELSE ReadProps(IF IsComment(Head(lines)) THEN props(d, Head(lines)) ELSE d,
                   Tail(lines))

----------------------------------------------------------------------------
(* parser.parse and BBDB.read.                                             *)

\* version = data.get("fileversion", version or 2); 0 stands for None.
SelectedVersion(d, hint) ==
    IF "fileversion" \in d.keys THEN d.fileversion
    ELSE IF hint # 0 THEN hint ELSE 2

\* grammars = {2: make_grammar_2, 9: make_grammar_9}; grammars[v] of a
\* missing key raises KeyError ("none").
grammars(v) == IF v = 2 THEN G2 ELSE IF v = 9 THEN G9 ELSE "none"

\* parser.parse(text, version): the exception raised, the grammar used and
\* the data returned.
parse(t, hint) ==
    LET d == ExtractProperties(NoData, SplitLines(t))
        g == grammars(SelectedVersion(d, hint))
        r == parseString(g, t)
    IN  IF g = "none" THEN [raised |-> "KeyError", gram |-> g, data |-> NoData]
        ELSE IF r.raised # "none" THEN [raised |-> r.raised, gram |-> g, data |-> NoData]
        ELSE [raised |-> "none", gram |-> g,
              data |-> [d EXCEPT !.keys = @ \cup {"records"}, !.records = r.records]]

\* Record(**kw) for the records the grammar of bbdb.py made: the aka and
\* the net of each are list objects of their own.
RECURSIVE NewRecords(_, _)
NewRecords(heap, parsed) ==
    IF parsed = <<>> THEN [heap |-> heap, records |-> <<>>]
    ELSE LET r == Head(parsed)
             rest == NewRecords(heap \o <<r.aka, r.net>>, Tail(parsed))
         IN  [heap |-> rest.heap,
              records |-> <<[r EXCEPT !.aka = Len(heap) + 1, !.net = Len(heap) + 2]>>
                          \o rest.records]

----------------------------------------------------------------------------
(* The in-memory model: BBDB.__init__, Record.__init__, Address.__init__,  *)
(* add_record, add_field.                                                  *)

CodingDefault == <<"u", "t", "f", "-", "8", "-", "e", "m", "a", "c", "s">>
FileversionDefault == 6

\* BBDB(userfields=uf): no records.
NewBBDB(uf) ==
    [coding |-> CodingDefault, fileversion |-> FileversionDefault,
     userfields |-> uf, records |-> <<>>]

\* The two list objects made when add_record is defined: the defaults of
\* its aka and net parameters.
DefaultAka == 1
DefaultNet == 2
InitialHeap == << <<>>, <<>> >>

\* Address(**kw): lines is copied, list(kw.get("lines", [])).
NewAddress(kw) ==
    [lines |-> kw.lines, city |-> kw.city, state |-> kw.state,
     zipcode |-> kw.zipcode, country |-> kw.country]

\* Record(**kw): aka and net keep the list objects given (references);
\* phone and fields are copied into new odicts, each address becomes a new
\* Address.
NewRecord(kw) ==
    [firstname |-> kw.firstname, lastname |-> kw.lastname,
     company |-> kw.company, aka |-> kw.aka, phone |-> kw.phone,
     address |-> [i \in 1..Len(kw.address) |->
                    [k |-> kw.address[i].k, v |-> NewAddress(kw.address[i].v)]],
     net |-> kw.net, fields |-> kw.fields, cache |-> NoneStr]

\* The keyword arguments of add_record when none is given.
DefaultArgs ==
    [firstname |-> <<>>, lastname |-> <<>>, company |-> <<>>, aka |-> DefaultAka,
     phone |-> <<>>, address |-> <<>>, net |-> DefaultNet, fields |-> <<>>]

\* Record.add_field: self["fields"][tag] = text
add_field(rec, tag, txt) == [rec EXCEPT !.fields = DictSet(@, tag, txt)]

----------------------------------------------------------------------------
(* Specification of the pure pair quote / make_string.                     *)


QuoteInit ==
    /\ string \in Strings
    /\ token = <<>>
    /\ unquoted = <<>>
    /\ last = "init"
    /\ db = Idle /\ lists = <<>> /\ fp = <<>> /\ raised = "none"
    /\ text = <<>> /\ version = 0 /\ data = NoData /\ gram = "none"

Quote ==
    /\ last = "init"
    /\ token' = quote(string)
    /\ last' = "quote"
    /\ UNCHANGED <<dbVars, parseVars, raised, string, unquoted>>

StringAction ==
    /\ last = "quote"
    /\ unquoted' = make_string(token)
    /\ last' = "make_string"
    /\ UNCHANGED <<dbVars, parseVars, raised, string, token>>

QuoteNext == Quote \/ StringAction

SpecQuote == QuoteInit /\ [][QuoteNext]_vars

\* C9: for every string s, the string action applied to quote(s) gives s
\* back: make_string(quote(s)) = s.
QuoteUnescapeInverse == (last = "make_string") => (unquoted = string)

\* A string holding a backslash directly before a quote has gone through
\* quote and the string action.
QuoteUnescapeWitness ==
    /\ last = "make_string"
    /\ \E i \in 1..(Len(string) - 1) : string[i] = BS /\ string[i + 1] = DQ
    /\ token # <<DQ>> \o string \o <<DQ>>


----------------------------------------------------------------------------
(* Specification of the database object: add_record, add_field, write.     *)

MaxRecords == 2

\* Field tags (atoms) and field texts the operations are called with: a
\* record is created without fields or with one, which add_field may then
\* overwrite.
TagInputs == {<<"s">>, <<"k">>}
TextInputs == {<<"a">>}
FieldsInputs == {<<>>, <<[k |-> <<"s">>, v |-> <<"b">>]>>}
UserfieldsInputs == {<<>>, <<<<"k">>>>}

Init ==
    /\ \E uf \in UserfieldsInputs : db = NewBBDB(uf)
    /\ lists = InitialHeap
    /\ fp = <<>>
    /\ raised = "none"
    /\ last = "init"
    /\ text = <<>> /\ version = 0 /\ data = NoData /\ gram = "none"
    /\ string = <<>> /\ token = <<>> /\ unquoted = <<>>

\* BBDB.add_record(firstname, lastname, fields=...)
AddRecord ==
    /\ Len(db.records) < MaxRecords
    /\ \E f \in FieldsInputs :
          db' = [db EXCEPT !.records =
                    Append(@, NewRecord([DefaultArgs EXCEPT !.firstname = <<"a">>,
                                                            !.fields = f]))]
    /\ last' = "add_record"
    /\ raised' = "none"
    /\ UNCHANGED <<lists, fp, parseVars, quoteVars>>

\* Record.add_field(tag, text) on record i
AddField ==
    /\ \E i \in 1..Len(db.records), tag \in TagInputs, txt \in TextInputs :
          db' = [db EXCEPT !.records[i] = add_field(@, tag, txt)]
    /\ last' = "add_field"
    /\ raised' = "none"
    /\ UNCHANGED <<lists, fp, parseVars, quoteVars>>

\* BBDB.write(fp) to a new file object
Write ==
    /\ db # Idle
    /\ LET w == write(lists, db)
       IN  /\ db' = [db EXCEPT !.userfields = w.userfields]
           /\ fp' = w.out
           /\ raised' = w.raised
    /\ last' = "write"
    /\ UNCHANGED <<lists, parseVars, quoteVars>>

Next == AddRecord \/ AddField \/ Write

Spec == Init /\ [][Next]_vars

\* Where a tag is seen: record r, field f.
SeenAt(records, tag) ==
    UNION {{<<r, f>> : f \in {g \in 1..Len(records[r].fields) :
                                records[r].fields[g].k = tag}} :
           r \in 1..Len(records)}

Earlier(p, q) == p[1] < q[1] \/ (p[1] = q[1] /\ p[2] < q[2])

FirstSeenBefore(records, t1, t2) ==
    \E p \in SeenAt(records, t1) : \A q \in SeenAt(records, t2) : Earlier(p, q)

\* What a write must have done to the registry old, given the records:
\* new is old followed by the unregistered field tags of the records, once
\* each, in first-seen order, and the third line written lists new.
Accumulated(old, new, records, out) ==
    LET n == Len(old)
    IN  /\ Len(new) >= n
        /\ SubSeq(new, 1, n) = old
        /\ \A i \in (n + 1)..Len(new) :
              /\ SeenAt(records, new[i]) # {}
              /\ \A j \in 1..Len(new) : new[j] = new[i] => j = i
        /\ \A r \in 1..Len(records) : \A f \in 1..Len(records[r].fields) :
              \E i \in 1..Len(new) : new[i] = records[r].fields[f].k
        /\ \A i, j \in (n + 1)..Len(new) :
              i < j => FirstSeenBefore(records, new[i], new[j])
        /\ Len(SplitLines(out)) >= 3
        /\ SplitLines(out)[3] =
              <<";", ";", ";", SP>> \o PatUserFields \o Join(<<SP>>, new) \o <<")">>

\* C7: every write leaves userfields equal to the previous userfields
\* followed by the records' field tags that were not registered, in
\* first-seen order and once each; no registered tag is removed or moved;
\* the user-fields header line is written from the updated list.
RegistryAccumulation ==
    [][last' = "write" =>
         /\ Accumulated(db.userfields, db'.userfields, db.records, fp')
         /\ db'.records = db.records]_vars

\* A write has appended a tag behind one registered earlier, although the
\* records now list the two in the other order.
RegistryWitness ==
    /\ last = "write"
    /\ db.userfields = <<<<"k">>, <<"s">>>>
    /\ FieldTags(db.records) = <<<<"s">>, <<"k">>>>


----------------------------------------------------------------------------
(* Specification of the round trip of one record: a database holding one   *)
(* Record built in memory is written, and the text written is parsed       *)
(* (bbdb.parse, the grammar of make_grammar).                              *)

MaxItems == 2

Name == <<"a">>

\* The records the round trip starts from.  Each is the base record with
\* one part varied, or a combination of empty and non-empty collections.
BaseAddress == [lines |-> <<Name>>, city |-> Name, state |-> <<>>,
                zipcode |-> <<>>, country |-> <<>>]

\* aka / net lists, the explicit list argument's value (<<>>: the default)
ListInputs == SeqsUpTo({Name, <<DQ>>}, MaxItems)

PhoneInputs ==
    {<<>>}
    \cup {<<[k |-> <<"h">>, v |-> PhoneStr(s)]>> : s \in Strings}
    \cup {<<[k |-> <<"h">>, v |-> PhoneInts(<<5, 12>>)]>>,
          <<[k |-> <<"h">>, v |-> PhoneStr(Name)], [k |-> <<"w">>, v |-> PhoneStr(<<>>)]>>,
          <<[k |-> <<"h">>, v |-> PhoneStr(Name)], [k |-> <<"w">>, v |-> PhoneInts(<<7>>)]>>}

AddressInputs ==
    {<<>>}
    \cup {<<[k |-> <<"h">>, v |-> [BaseAddress EXCEPT !.lines = l]]>> :
            l \in SeqsUpTo({Name}, MaxItems)}
    \cup {<<[k |-> <<"h">>, v |-> [BaseAddress EXCEPT !.state = s]]>> : s \in {<<DQ>>, <<BS>>}}
    \cup {<<[k |-> <<"h">>, v |-> BaseAddress], [k |-> <<"w">>, v |-> BaseAddress]>>}

RoundFieldsInputs ==
    {<<>>, <<[k |-> <<"s">>, v |-> Name]>>,
     <<[k |-> <<"s">>, v |-> <<DQ>>], [k |-> <<"k">>, v |-> <<>>]>>}

BaseKw ==
    [firstname |-> Name, lastname |-> Name, company |-> <<>>, aka |-> <<>>,
     phone |-> <<>>, address |-> <<>>, net |-> <<>>, fields |-> <<>>]

\* Either the collection is empty or it is the given one.
EmptyOr(x) == {<<>>, x}

RecordInputs ==
    {[BaseKw EXCEPT !.firstname = s] : s \in Strings}
    \cup {[BaseKw EXCEPT !.lastname = s] : s \in Strings}
    \cup {[BaseKw EXCEPT !.company = s] : s \in Strings}
    \cup {[BaseKw EXCEPT !.aka = l] : l \in ListInputs}
    \cup {[BaseKw EXCEPT !.net = l] : l \in ListInputs}
    \cup {[BaseKw EXCEPT !.phone = x] : x \in PhoneInputs}
    \cup {[BaseKw EXCEPT !.address = x] : x \in AddressInputs}
    \cup {[BaseKw EXCEPT !.fields = x] : x \in RoundFieldsInputs}
    \cup {[BaseKw EXCEPT !.aka = a, !.net = n, !.phone = ph, !.address = ad, !.fields = f] :
            a \in EmptyOr(<<Name>>), n \in EmptyOr(<<Name, Name>>),
            ph \in EmptyOr(<<[k |-> <<"h">>, v |-> PhoneStr(Name)]>>),
            ad \in EmptyOr(<<[k |-> <<"h">>, v |-> BaseAddress]>>),
            f \in EmptyOr(<<[k |-> <<"s">>, v |-> Name], [k |-> <<"k">>, v |-> Name]>>)}

\* db = BBDB(); db.add_record(**kw) with explicit aka and net lists, which
\* become the list objects 3 and 4.
RoundInit ==
    /\ \E kw \in RecordInputs :
          /\ lists = InitialHeap \o <<kw.aka, kw.net>>
          /\ db = [NewBBDB(<<>>) EXCEPT !.records =
                      <<NewRecord([kw EXCEPT !.aka = Len(InitialHeap) + 1,
                                             !.net = Len(InitialHeap) + 2])>>]
    /\ fp = <<>>
    /\ raised = "none"
    /\ last = "init"
    /\ text = <<>> /\ version = 0 /\ data = NoData /\ gram = "none"
    /\ string = <<>> /\ token = <<>> /\ unquoted = <<>>

\* BBDB.write
RoundWrite ==
    /\ last = "init"
    /\ Write

\* bbdb.parse(text) of the text written: grammar.parseString(text, parseAll=True)
ParseBack ==
    /\ last = "write"
    /\ raised = "none"
    /\ text' = fp
    /\ gram' = G0
    /\ LET r == parseString(G0, fp)
       IN  /\ raised' = r.raised
           /\ data' = IF r.raised = "none"
                      THEN [NoData EXCEPT !.keys = {"records"}, !.records = r.records]
                      ELSE data
    /\ last' = "parse_back"
    /\ UNCHANGED <<dbVars, version, quoteVars>>

RoundNext == RoundWrite \/ ParseBack

SpecRound == RoundInit /\ [][RoundNext]_vars

\* The Record of the database as a parsed record shows it: aka and net by
\* value; a company that is None or empty counts as no company.
NoCompany(c) == IF Truthy(c) THEN c ELSE <<>>
ByValue(heap, rec) ==
    [rec EXCEPT !.aka = Deref(heap, @), !.net = Deref(heap, @),
                !.company = NoCompany(@)]
SameRecord(heap, rec, parsed) ==
    ByValue(heap, rec) = [parsed EXCEPT !.company = NoCompany(@)]

\* C1: the text written for a database holding one in-memory Record parses
\* to exactly one record, field by field equal to that Record.
RoundTripLaw ==
    (last = "parse_back") =>
        /\ raised = "none"
        /\ Len(data.records) = 1
        /\ SameRecord(lists, db.records[1], data.records[1])

\* C2: BBDB.write of a well-formed database (phone values integer sequences
\* or strings) never fails.
WriteTotal == (last = "write") => (raised = "none")

Count(s, c) == Cardinality({i \in 1..Len(s) : s[i] = c})

\* A slot written for a collection of n elements, of which the slot shows
\* items: nil for none, else a parenthesized group of n items.
Elided(slot, n, items) ==
    IF n = 0 THEN slot = NIL
    ELSE /\ slot # NIL
         /\ Head(slot) = "(" /\ slot[Len(slot)] = ")"
         /\ items = n

NoEmptyParens(s) == \A i \in 1..(Len(s) - 1) : ~(s[i] = "(" /\ s[i + 1] = ")")

\* The items a slot shows: the strings of aka and net are separated by
\* single spaces, each phone and address entry opens one bracket, each
\* field holds one dot (the strings written hold none of these).
NilElidedIn(heap, rec, out, line) ==
    /\ line = <<"[">> \o Join(<<SP>>, out) \o <<"]">>
    /\ Len(out) = 9
    /\ Elided(out[3], Len(Deref(heap, rec.aka)), Count(out[3], SP) + 1)
    /\ Elided(out[5], Len(rec.phone), Count(out[5], "["))
    /\ Elided(out[6], Len(rec.address), Count(out[6], "["))
    /\ Elided(out[7], Len(Deref(heap, rec.net)), Count(out[7], SP) + 1)
    /\ Elided(out[8], Len(rec.fields), Count(out[8], "."))
    /\ out[9] = NIL
    /\ NoEmptyParens(line)

\* C8: in a record written, each of the aka, phone, address, net and fields
\* slots is nil exactly when its collection is empty and a parenthesized
\* group with one item per element otherwise; no empty pair of parentheses
\* is written, and the last slot (cache) is nil.
NilElision ==
    (last = "write" /\ raised = "none") =>
        NilElidedIn(lists, db.records[1], Outputs(lists, db.records[1]),
                    SplitLines(fp)[4])

\* A record with no aka and no address, two net entries, a phone and two
\* fields has been written.
NilElisionWitness ==
    /\ last = "write" /\ raised = "none"
    /\ Deref(lists, db.records[1].aka) = <<>>
    /\ db.records[1].address = <<>>
    /\ Len(Deref(lists, db.records[1].net)) = 2
    /\ Len(db.records[1].phone) = 1
    /\ Len(db.records[1].fields) = 2

----------------------------------------------------------------------------
(* Specification of reading: a text is parsed by parser.parse (with a      *)
(* version hint) or read into a database by BBDB.read.                     *)

MaxEntries == 3
MaxHeaderLines == 2

Quoted(s) == <<DQ>> \o s \o <<DQ>>

EmptyGroup == <<"(", SP, ")">>

\* The slots of a compact record and of an extended one (affix after the
\* name; uuid, creation and timestamp before the cache), all groups nil.
CompactBase ==
    <<Quoted(<<"a">>), Quoted(<<"b">>), NIL, NIL, NIL, NIL, NIL, NIL, NIL>>
ExtendedBase ==
    <<Quoted(<<"a">>), Quoted(<<"b">>), NIL, NIL, NIL, NIL, NIL, NIL, NIL,
      Quoted(<<"u">>), Quoted(<<"c">>), Quoted(<<"t">>), NIL>>

EntryTags == {<<"h">>, <<"w">>}
TagSeqs == SeqsUpTo(EntryTags, MaxEntries) \ {<<>>}

\* The i-th entry of a group carries the digit i, so that entries with the
\* same tag differ.
Digit(i) == <<DigitChars[i + 1]>>

StringGroupTexts ==
    {EmptyGroup, Parens(<<Quoted(<<"x">>)>>), Parens(<<Quoted(<<"x">>), Quoted(<<"y">>)>>)}

PhoneGroupText(tags) ==
    Parens([i \in 1..Len(tags) |-> Brackets(<<Quoted(tags[i]), Digit(i)>>)])

AddressGroupText(tags, loc) ==
    Parens([i \in 1..Len(tags) |->
              Brackets(<<Quoted(tags[i]), loc, Quoted(Digit(i)),
                         Quoted(<<>>), Quoted(<<>>), Quoted(<<>>)>>)])

FieldsGroupText(tags) ==
    Parens([i \in 1..Len(tags) |-> Parens(<<tags[i], <<".">>, Quoted(Digit(i))>>)])

PhoneTexts == {EmptyGroup} \cup {PhoneGroupText(ts) : ts \in TagSeqs}

AddressTexts ==
    {EmptyGroup}
    \cup {AddressGroupText(ts, Parens(<<Quoted(<<"l">>)>>)) : ts \in TagSeqs}
    \cup {AddressGroupText(<<<<"h">>>>, loc) : loc \in {EmptyGroup, NIL}}

FieldsTexts == {EmptyGroup} \cup {FieldsGroupText(ts) : ts \in TagSeqs}

\* The base record with one slot replaced by each of the texts.
Varied(base, slot, texts) == {Brackets([base EXCEPT ![slot] = x]) \o <<NL>> : x \in texts}

CompactBodies ==
    Varied(CompactBase, 3, StringGroupTexts)
    \cup Varied(CompactBase, 4, {Quoted(<<"c">>)})
    \cup Varied(CompactBase, 5, PhoneTexts)
    \cup Varied(CompactBase, 6, AddressTexts)
    \cup Varied(CompactBase, 7, StringGroupTexts)
    \cup Varied(CompactBase, 8, FieldsTexts)

ExtendedBodies ==
    Varied(ExtendedBase, 3, StringGroupTexts)
    \cup Varied(ExtendedBase, 4, StringGroupTexts)
    \cup Varied(ExtendedBase, 6, PhoneTexts)
    \cup Varied(ExtendedBase, 7, AddressTexts)
    \cup Varied(ExtendedBase, 8, StringGroupTexts)
    \cup Varied(ExtendedBase, 9, FieldsTexts)

CompactRecord == Brackets(CompactBase) \o <<NL>>
ExtendedRecord == Brackets(ExtendedBase) \o <<NL>>

\* No record, two records, and a record followed by text that is no
\* record: a word, an unfinished record, a comment.
OtherBodies ==
    {<<>>,
     CompactRecord \o CompactRecord,
     CompactRecord \o <<"x", NL>>,
     CompactRecord \o <<"[", DQ, "a", DQ, NL>>,
     CompactRecord \o <<";", "x", NL>>,
     <<"[", NL>>}

FormatHeader(n) == <<";", ";", ";", SP>> \o PatFileFormat \o IntToChars(n) \o <<NL>>

\* ";;; file-format: m file-version: n"
BothHeader(m, n) ==
    <<";", ";", ";", SP>> \o PatFileFormat \o IntToChars(m) \o <<SP>>
        \o PatFileVersion \o IntToChars(n) \o <<NL>>

HeaderLines ==
    {VersionHeader(9), FormatHeader(2), VersionHeader(6), BothHeader(2, 9),
     CodingHeader(<<"u">>), FieldsHeader(<<<<"h">>>>)}

Headers == {Join(<<>>, hs) : hs \in SeqsUpTo(HeaderLines, MaxHeaderLines)}

\* The version argument of parser.parse; 0 is None (no hint).
Hints == {0, 2, 6, 9}

ParseInputs ==
    {[text |-> hd \o b, hint |-> v] :
        hd \in Headers, b \in {CompactRecord, ExtendedRecord}, v \in Hints}
    \cup {[text |-> b, hint |-> 0] : b \in CompactBodies \cup OtherBodies}
    \cup {[text |-> VersionHeader(9) \o b, hint |-> 0] : b \in ExtendedBodies}

\* A database holding one record made by add_record with its defaults, and
\* a text to parse or to read.
ParseInit ==
    /\ \E in \in ParseInputs : text = in.text /\ version = in.hint
    /\ db = [NewBBDB(<<>>) EXCEPT !.records =
                <<NewRecord([DefaultArgs EXCEPT !.firstname = <<"z">>])>>]
    /\ lists = InitialHeap
    /\ fp = <<>>
    /\ raised = "none"
    /\ last = "init"
    /\ data = NoData /\ gram = "none"
    /\ string = <<>> /\ token = <<>> /\ unquoted = <<>>

\* data = parser.parse(text, version)
Parse ==
    /\ last = "init"
    /\ raised' = parse(text, version).raised
    /\ gram' = parse(text, version).gram
    /\ data' = parse(text, version).data
    /\ last' = "parse"
    /\ UNCHANGED <<dbVars, text, version, quoteVars>>

\* The database after db.read(fp) of a file holding t, given the result of
\* parse(t): the properties are set first; the records are appended when
\* parse returns.
ReadInto(heap, d, made, parsed) ==
    IF parsed.raised = "none"
    THEN [db |-> [d EXCEPT !.records = @ \o made.records], lists |-> made.heap]
    ELSE [db |-> d, lists |-> heap]

read(heap, d, t, parsed) ==
    ReadInto(heap, ReadProps(d, SplitLines(t)), NewRecords(heap, parsed.records), parsed)

\* db.read(fp)
Read ==
    /\ last = "init"
    /\ db' = read(lists, db, text, parseString(G0, text)).db
    /\ lists' = read(lists, db, text, parseString(G0, text)).lists
    /\ raised' = parseString(G0, text).raised
    /\ gram' = G0
    /\ last' = "read"
    /\ UNCHANGED <<fp, text, version, data, quoteVars>>

ParseNext == Parse \/ Read

SpecParse == ParseInit /\ [][ParseNext]_vars

\* The version a comment line declares, 0 for none: that of its first
\* "file-version: <digits>", else that of its first "file-format: <digits>".
FormatDeclared(f) == IF f.found THEN CharsToInt(f.group) ELSE 0
VersionDeclared(v, f) == IF v.found THEN CharsToInt(v.group) ELSE FormatDeclared(f)
Declared(line) ==
    IF IsComment(line)
    THEN VersionDeclared(SearchDigits(line, PatFileVersion, 1),
                         SearchDigits(line, PatFileFormat, 1))
    ELSE 0

\* The declaration of the last line that declares a version, 0 for none.
RECURSIVE LastDeclared(_)
LastDeclared(lines) ==
    IF lines = <<>> THEN 0
    ELSE IF Declared(lines[Len(lines)]) # 0 THEN Declared(lines[Len(lines)])
    ELSE LastDeclared(SubSeq(lines, 1, Len(lines) - 1))

\* A comment line of t carries pat followed by the number n.
Carries(t, pat, n) ==
    \E i \in 1..Len(SplitLines(t)) :
        /\ IsComment(SplitLines(t)[i])
        /\ SearchDigits(SplitLines(t)[i], pat, 1).found
        /\ CharsToInt(SearchDigits(SplitLines(t)[i], pat, 1).group) = n

NoVersionLine(t) == \A i \in 1..Len(SplitLines(t)) : Declared(SplitLines(t)[i]) = 0

\* C3 as stated: parse selects the extended grammar when a comment line
\* carries "file-version: 9", and the compact grammar when a comment line
\* carries "file-format: 2" or when no line declares a version and no hint
\* is passed.
VersionDispatchAsStated ==
    (last = "parse") =>
        /\ Carries(text, PatFileVersion, 9) => gram = G9
        /\ (Carries(text, PatFileFormat, 2) \/ (NoVersionLine(text) /\ version = 0))
              => gram = G2

\* C3, amended: the last comment line that declares a version decides (in
\* one line file-version goes before file-format): parse selects the
\* extended grammar when that declaration is 9 and the compact grammar when
\* it is 2; with no declaration and no hint it selects the compact grammar.
VersionDispatch ==
    (last = "parse") =>
        /\ LastDeclared(SplitLines(text)) = 9 => gram = G9
        /\ LastDeclared(SplitLines(text)) = 2 => gram = G2
        /\ (LastDeclared(SplitLines(text)) = 0 /\ version = 0) => gram = G2

\* A text whose "file-version: 9" line is followed by a "file-format: 2"
\* line has been parsed with the compact grammar.
VersionDispatchWitness ==
    /\ last = "parse"
    /\ text = VersionHeader(9) \o FormatHeader(2) \o CompactRecord
    /\ gram = G2
    /\ raised = "none"

\* C4: when the version declared or hinted has no grammar (it is neither 2
\* nor 9), parse does not fail on the version and parses with the compact
\* grammar.
UnknownVersionFallback ==
    (/\ last = "parse"
     /\ SelectedVersion(ExtractProperties(NoData, SplitLines(text)), version) \notin {2, 9})
        => (raised # "KeyError" /\ gram = G2)

\* Something of t that is neither whitespace nor comment is left after the
\* records of grammar g that match from the start.
Unmatched(g, t) == Skip(t, Many("record", g, t, 1).pos) <= Len(t)

\* C5: when a part of the input does not match the grammar, parse raises
\* and returns no record, and read raises and leaves the database's record
\* list as it was.
AllOrNothing ==
    [][/\ (last' = "parse" /\ gram' # "none" /\ Unmatched(gram', text'))
            => /\ raised' = "ParseException"
               /\ "records" \notin data'.keys
               /\ data'.records = <<>>
       /\ (last' = "read" /\ Unmatched(G0, text'))
            => /\ raised' = "ParseException"
               /\ db'.records = db.records
               /\ lists' = lists]_vars

\* A read has failed on a text whose first record matches the grammar.
AllOrNothingWitness ==
    /\ last = "read"
    /\ raised = "ParseException"
    /\ Many("record", G0, text, 1).val # <<>>
    /\ Len(db.records) = 1

\* The named results of the first record of the text, under the grammar
\* used.
Slots == RecordSlots(gram, text, 1)

\* The first record returned: by parse, or appended by read (aka and net by
\* value).
Result ==
    IF last = "parse" THEN data.records[1] ELSE ByValue(lists, db.records[2])

\* The text is one record of the grammar used and nothing else.
OneRecord == Slots.ok /\ Skip(text, Slots.pos) > Len(text)

\* The entries of the group that starts where element r ended.
EntryOf(kind) ==
    IF kind = "phone" THEN "phone_entry"
    ELSE IF kind = "address" THEN "address_entry" ELSE "field"
EntriesFrom(kind, g, t, lp) ==
    IF lp.ok THEN Many(EntryOf(kind), g, t, lp.pos).val ELSE <<>>
EntriesAfter(kind, g, t, r) ==
    IF r.ok THEN EntriesFrom(kind, g, t, Lit(t, r.pos, "(")) ELSE <<>>

\* The element before each mapping group.
Before(kind) ==
    IF kind = "phone" THEN "company" ELSE IF kind = "address" THEN "phone" ELSE "net"

Entries(kind) == EntriesAfter(kind, gram, text, Slots.v[Before(kind)])

HasDuplicate(entries) ==
    \E i, j \in 1..Len(entries) : i < j /\ entries[i].k = entries[j].k

FirstIndex(entries, key) ==
    CHOOSE i \in 1..Len(entries) :
        entries[i].k = key /\ \A j \in 1..(i - 1) : entries[j].k # key

\* Mapping m holds each tag of the entries once, with the value of the last
\* entry of the tag, in the order of the first entries of the tags.
Resolved(entries, m) ==
    /\ \A i \in 1..Len(entries) :
          Cardinality({j \in 1..Len(m) : m[j].k = entries[i].k}) = 1
    /\ \A j \in 1..Len(m) :
          \E i \in 1..Len(entries) :
              /\ entries[i].k = m[j].k /\ entries[i].v = m[j].v
              /\ \A i2 \in (i + 1)..Len(entries) : entries[i2].k # m[j].k
    /\ \A j1, j2 \in 1..Len(m) :
          j1 < j2 => FirstIndex(entries, m[j1].k) < FirstIndex(entries, m[j2].k)

\* C6: when the phone, address or fields group of a record holds several
\* entries with one tag, parsing does not fail and the mapping has one key
\* for the tag, with the value of the last entry of the tag, at the
\* position of the first.
DuplicateTagResolution ==
    \A kind \in {"phone", "address", "fields"} :
        (/\ last \in {"parse", "read"} /\ gram # "none"
         /\ OneRecord
         /\ HasDuplicate(Entries(kind)))
            => (raised = "none" /\ Resolved(Entries(kind), Result[kind]))

\* The phone entries h, w, h have been parsed: h comes first with the
\* number of the third entry.
DuplicateTagWitness ==
    /\ last = "parse"
    /\ Keys(Entries("phone")) = <<<<"h">>, <<"w">>, <<"h">>>>
    /\ data.records[1].phone =
          <<[k |-> <<"h">>, v |-> PhoneInts(<<3>>)], [k |-> <<"w">>, v |-> PhoneInts(<<2>>)]>>

\* The optional groups of a record and the element before each.
OptionalSlots(g) ==
    IF g = G9 THEN {"affix", "aka", "phone", "address", "net", "fields"}
    ELSE {"aka", "phone", "address", "net", "fields"}

Prev(g, slot) ==
    IF slot = "affix" THEN "lastname"
    ELSE IF slot = "aka" THEN (IF g = G9 THEN "affix" ELSE "lastname")
    ELSE IF slot = "phone" THEN "company"
    ELSE IF slot = "address" THEN "phone"
    ELSE IF slot = "net" THEN "address"
    ELSE "net"

\* "(" and ")" with nothing between them follow element r.
ClosesAt(t, lp) == lp.ok /\ Lit(t, lp.pos, ")").ok
EmptyGroupAfter(t, r) == r.ok /\ ClosesAt(t, Lit(t, r.pos, "("))

NilAfter(t, r) == r.ok /\ Nil(t, r.pos).ok

\* The tag of the first address entry of the group that follows element r.
TagAfterBracket(g, t, lb) == IF lb.ok THEN String(g, t, lb.pos) ELSE Fail
TagAfterParen(g, t, lp) == IF lp.ok THEN TagAfterBracket(g, t, Lit(t, lp.pos, "[")) ELSE Fail
FirstAddressTag(g, t, r) == IF r.ok THEN TagAfterParen(g, t, Lit(t, r.pos, "(")) ELSE Fail

\* C10: an empty group "( )" in an optional slot (affix, aka, phone,
\* address, net, fields) or as the location lines of an address makes the
\* parse fail; nil in the aka, phone, address, net or fields slot gives the
\* empty sequence or mapping.
OnlyNilIsEmpty ==
    (last \in {"parse", "read"} /\ gram # "none") =>
        /\ \A slot \in OptionalSlots(gram) :
              EmptyGroupAfter(text, Slots.v[Prev(gram, slot)])
                  => raised = "ParseException"
        /\ EmptyGroupAfter(text, FirstAddressTag(gram, text, Slots.v.phone))
              => raised = "ParseException"
        /\ \A slot \in {"aka", "phone", "address", "net", "fields"} :
              (NilAfter(text, Slots.v[Prev(gram, slot)]) /\ raised = "none")
                  => Result[slot] = <<>>

\* An extended record whose address has "( )" for its location lines has
\* been rejected.
OnlyNilIsEmptyWitness ==
    /\ last = "parse"
    /\ gram = G9
    /\ EmptyGroupAfter(text, FirstAddressTag(gram, text, Slots.v.phone))
    /\ raised = "ParseException"

----------------------------------------------------------------------------
(* Specification of the records of a database: add_record with default or  *)
(* explicit arguments, then the setters and the add_ methods of Record.    *)

MaxSize == 3

\* Record.name
name(rec) == rec.firstname \o <<SP>> \o rec.lastname

\* Record.set_firstname, set_lastname, set_name, set_company
set_firstname(rec, firstname) == [rec EXCEPT !.firstname = firstname]
set_lastname(rec, lastname) == [rec EXCEPT !.lastname = lastname]
set_name(rec, firstname, lastname) ==
    set_lastname(set_firstname(rec, firstname), lastname)
set_company(rec, company) == [rec EXCEPT !.company = company]

\* Record.add_aka, add_net: self["aka"].extend(names) changes the list
\* object the record refers to.
extend(heap, ref, names) == [heap EXCEPT ![ref] = @ \o names]

\* Record.add_phone: self["phone"][tag] = number
add_phone(rec, tag, number) == [rec EXCEPT !.phone = DictSet(@, tag, number)]

\* Record.add_address: self["address"][tag] = Address(lines=lines, ...)
add_address(rec, tag, kw) == [rec EXCEPT !.address = DictSet(@, tag, NewAddress(kw))]

\* The size of the database: the characters of the names and companies,
\* the entries of the mappings and the items of the list objects.
RECURSIVE SumLen(_)
SumLen(seqs) == IF seqs = <<>> THEN 0 ELSE Len(Head(seqs)) + SumLen(Tail(seqs))
RecordSize(rec) ==
    Len(rec.firstname) + Len(rec.lastname) + Len(rec.company)
        + Len(rec.phone) + Len(rec.address) + Len(rec.fields)
Size(heap, d) ==
    SumLen(heap) + SumLen([i \in 1..Len(d.records) |->
                             [j \in 1..RecordSize(d.records[i]) |-> 0]])

FirstnameInputs == {<<>>, <<"a">>}
LastnameInputs == {<<>>, <<"b">>}
AddressArg == [lines |-> <<>>, city |-> <<"c">>, state |-> <<>>,
               zipcode |-> <<>>, country |-> <<>>]

RecordInit ==
    /\ db = NewBBDB(<<>>)
    /\ lists = InitialHeap
    /\ fp = <<>>
    /\ raised = "none"
    /\ last = "init"
    /\ text = <<>> /\ version = 0 /\ data = NoData /\ gram = "none"
    /\ string = <<>> /\ token = <<>> /\ unquoted = <<>>

\* db.add_record(): every argument left to its default
AddRecordDefault ==
    /\ Len(db.records) < MaxRecords
    /\ db' = [db EXCEPT !.records = Append(@, NewRecord(DefaultArgs))]
    /\ last' = "add_record"
    /\ UNCHANGED <<lists, fp, raised, parseVars, quoteVars>>

\* db.add_record(aka=[], net=[]): two new list objects given by the caller
AddRecordExplicit ==
    /\ Len(db.records) < MaxRecords
    /\ lists' = lists \o << <<>>, <<>> >>
    /\ db' = [db EXCEPT !.records =
                 Append(@, NewRecord([DefaultArgs EXCEPT !.aka = Len(lists) + 1,
                                                         !.net = Len(lists) + 2]))]
    /\ last' = "add_record"
    /\ UNCHANGED <<fp, raised, parseVars, quoteVars>>

SetFirstname ==
    /\ \E i \in 1..Len(db.records), f \in FirstnameInputs :
          /\ Size(lists, db) - Len(db.records[i].firstname) + Len(f) <= MaxSize
          /\ db' = [db EXCEPT !.records[i] = set_firstname(@, f)]
    /\ last' = "set_firstname"
    /\ UNCHANGED <<lists, fp, raised, parseVars, quoteVars>>

SetLastname ==
    /\ \E i \in 1..Len(db.records), l \in LastnameInputs :
          /\ Size(lists, db) - Len(db.records[i].lastname) + Len(l) <= MaxSize
          /\ db' = [db EXCEPT !.records[i] = set_lastname(@, l)]
    /\ last' = "set_lastname"
    /\ UNCHANGED <<lists, fp, raised, parseVars, quoteVars>>

SetName ==
    /\ \E i \in 1..Len(db.records), f \in FirstnameInputs, l \in LastnameInputs :
          /\ Size(lists, db) - RecordSize(db.records[i])
                 + RecordSize(set_name(db.records[i], f, l)) <= MaxSize
          /\ db' = [db EXCEPT !.records[i] = set_name(@, f, l)]
    /\ last' = "set_name"
    /\ UNCHANGED <<lists, fp, raised, parseVars, quoteVars>>

SetCompany ==
    /\ \E i \in 1..Len(db.records), c \in {<<>>, <<"c">>} :
          /\ Size(lists, db) - Len(db.records[i].company) + Len(c) <= MaxSize
          /\ db' = [db EXCEPT !.records[i] = set_company(@, c)]
    /\ last' = "set_company"
    /\ UNCHANGED <<lists, fp, raised, parseVars, quoteVars>>

\* rec.add_aka("x")
AddAka ==
    /\ Size(lists, db) < MaxSize
    /\ \E i \in 1..Len(db.records) :
          lists' = extend(lists, db.records[i].aka, <<<<"x">>>>)
    /\ last' = "add_aka"
    /\ UNCHANGED <<db, fp, raised, parseVars, quoteVars>>

\* rec.add_net("n")
AddNet ==
    /\ Size(lists, db) < MaxSize
    /\ \E i \in 1..Len(db.records) :
          lists' = extend(lists, db.records[i].net, <<<<"n">>>>)
    /\ last' = "add_net"
    /\ UNCHANGED <<db, fp, raised, parseVars, quoteVars>>

\* rec.add_phone("h", "5")
AddPhone ==
    /\ Size(lists, db) < MaxSize
    /\ \E i \in 1..Len(db.records) :
          db' = [db EXCEPT !.records[i] = add_phone(@, <<"h">>, PhoneStr(<<"5">>))]
    /\ last' = "add_phone"
    /\ UNCHANGED <<lists, fp, raised, parseVars, quoteVars>>

\* rec.add_address("h", city="c")
AddAddress ==
    /\ Size(lists, db) < MaxSize
    /\ \E i \in 1..Len(db.records) :
          db' = [db EXCEPT !.records[i] = add_address(@, <<"h">>, AddressArg)]
    /\ last' = "add_address"
    /\ UNCHANGED <<lists, fp, raised, parseVars, quoteVars>>

\* rec.add_field("s", "t")
AddFieldTo ==
    /\ Size(lists, db) < MaxSize
    /\ \E i \in 1..Len(db.records) :
          db' = [db EXCEPT !.records[i] = add_field(@, <<"s">>, <<"t">>)]
    /\ last' = "add_field"
    /\ UNCHANGED <<lists, fp, raised, parseVars, quoteVars>>

RecordNext ==
    \/ AddRecordDefault \/ AddRecordExplicit
    \/ SetFirstname \/ SetLastname \/ SetName \/ SetCompany
    \/ AddAka \/ AddNet \/ AddPhone \/ AddAddress \/ AddFieldTo

SpecRecord == RecordInit /\ [][RecordNext]_vars

\* s.strip(): s without its leading and trailing whitespace
RECURSIVE Strip(_)
Strip(s) ==
    IF s = <<>> THEN s
    ELSE IF Head(s) \in White THEN Strip(Tail(s))
    ELSE IF s[Len(s)] \in White THEN Strip(SubSeq(s, 1, Len(s) - 1))
    ELSE s

\* C11: the name of every record is its current firstname, one space and
\* its current lastname, with leading and trailing whitespace trimmed.
NameTrimmed ==
    \A i \in 1..Len(db.records) :
        name(db.records[i]) =
            Strip(db.records[i].firstname \o <<SP>> \o db.records[i].lastname)

\* C12: a mutation of one record changes only that record: at most one
\* record of the database has another value after add_aka, add_net,
\* add_phone, add_address, add_field or a setter than before it, and a
\* record created afterwards by add_record has no aka, net, phone, address
\* or fields.
RecordIsolation ==
    [][/\ last' \in {"add_aka", "add_net", "add_phone", "add_address", "add_field",
                     "set_name", "set_firstname", "set_lastname", "set_company"}
          => Cardinality({i \in 1..Len(db.records) :
                            ByValue(lists', db'.records[i])
                                # ByValue(lists, db.records[i])}) <= 1
       /\ last' = "add_record"
          => ByValue(lists', db'.records[Len(db'.records)])
                = ByValue(InitialHeap, NewRecord(DefaultArgs))]_vars

\* C13: a read that fails leaves the database unchanged: when BBDB.read
\* raises ParseException, the coding, fileversion, userfields and records
\* of the database are what they were before the call.
FailedReadUnchanged ==
    [][(last' = "read" /\ raised' = "ParseException")
          => /\ db'.coding = db.coding
             /\ db'.fileversion = db.fileversion
             /\ db'.userfields = db.userfields
             /\ db'.records = db.records
             /\ lists' = lists]_vars

====
